---- MODULE Spec2Model ----
(***************************************************************************)
(* Model of src/src/search-ip.tsx: the SearchCommand component (search     *)
(* history, startSearch) and the ResultsView component (the scan effect:   *)
(* gcloud check, project enumeration, batched concurrent probes, the       *)
(* completion that saves to or removes from the history), the load of the  *)
(* stored history when the command mounts, and getStatusInfo, the status   *)
(* text and colour of a result.                                            *)
(*                                                                         *)
(* Strings the code inspects character by character (the ip, the custom    *)
(* project list) are sequences of one-character strings.                   *)
(***************************************************************************)
EXTENDS Integers, Sequences, FiniteSets, TLC

(***************************************************************************)
(* Text helpers                                                            *)
(***************************************************************************)
Range(s) == {s[k] : k \in DOMAIN s}

Digits == {"0", "1", "2", "3", "4", "5", "6", "7", "8", "9"}

HexDigits == Digits \cup {"a", "b", "c", "d", "e", "f", "A", "B", "C", "D", "E", "F"}

AlphaNum == HexDigits \cup {"g", "z", "G", "Z"}

Whitespace == {" ", "\t"}

\* String.prototype.trim: drop the whitespace at both ends.
RECURSIVE TrimStart(_)
TrimStart(s) ==
    IF s # <<>> /\ Head(s) \in Whitespace THEN TrimStart(Tail(s)) ELSE s

RECURSIVE TrimEnd(_)
TrimEnd(s) ==
    IF s # <<>> /\ s[Len(s)] \in Whitespace
    THEN TrimEnd(SubSeq(s, 1, Len(s) - 1))
    ELSE s

Trim(s) == TrimEnd(TrimStart(s))

(***************************************************************************)
(* Regular expressions of isValidIP, as syntax trees, and their matcher.   *)
(* Ends(re, s, i) is the set of positions j such that re matches           *)
(* s[i .. j-1]; the patterns have no back-references or look-around, so    *)
(* RegExp.test on an anchored pattern is membership in the language.       *)
(***************************************************************************)
Cls(cs) == [t |-> "cls", cs |-> cs]
Lit(c) == Cls({c})
Cat(rs) == [t |-> "cat", rs |-> rs]
Alt(rs) == [t |-> "alt", rs |-> rs]
Rep(r, lo, hi) == [t |-> "rep", r |-> r, lo |-> lo, hi |-> hi]
Opt(r) == Rep(r, 0, 1)
AtLeast(r, lo) == Rep(r, lo, 0 - 1)

RECURSIVE Ends(_, _, _), CatEnds(_, _, _, _), RepEnds(_, _, _, _, _)
Ends(re, s, i) ==
    CASE re.t = "cls" -> IF i <= Len(s) /\ s[i] \in re.cs THEN {i + 1} ELSE {}
      [] re.t = "cat" -> CatEnds(re.rs, 1, s, {i})
      [] re.t = "alt" -> UNION {Ends(re.rs[k], s, i) : k \in DOMAIN re.rs}
      [] re.t = "rep" -> RepEnds(re.r, re.lo, re.hi, s, {i})

CatEnds(rs, k, s, P) ==
    IF k > Len(rs) \/ P = {}
    THEN P
    ELSE CatEnds(rs, k + 1, s, UNION {Ends(rs[k], s, p) : p \in P})

\* lo and hi count the repetitions still required and still allowed; a
\* negative hi is the open-ended {n,}.
RepEnds(r, lo, hi, s, P) ==
    IF P = {}
    THEN {}
    ELSE LET here == IF lo > 0 THEN {} ELSE P
         IN  IF hi = 0
             THEN here
             ELSE here \cup RepEnds(r, IF lo > 0 THEN lo - 1 ELSE 0, hi - 1, s,
                                    UNION {Ends(r, s, p) : p \in P})

\* ^re$ tested against s.
Test(re, s) == (Len(s) + 1) \in Ends(re, s, 1)

\* (25[0-5]|2[0-4][0-9]|[01]?[0-9][0-9]?)
Octet4 ==
    Alt(<<Cat(<<Lit("2"), Lit("5"), Cls({"0", "1", "2", "3", "4", "5"})>>),
          Cat(<<Lit("2"), Cls({"0", "1", "2", "3", "4"}), Cls(Digits)>>),
          Cat(<<Opt(Cls({"0", "1"})), Cls(Digits), Opt(Cls(Digits))>>)>>)

ipv4Regex ==
    Cat(<<Octet4, Lit("."), Octet4, Lit("."), Octet4, Lit("."), Octet4>>)

\* [0-9a-fA-F]{1,4}
Hextet == Rep(Cls(HexDigits), 1, 4)
\* ([0-9a-fA-F]{1,4}:)
HextetColon == Cat(<<Hextet, Lit(":")>>)
\* (:[0-9a-fA-F]{1,4})
ColonHextet == Cat(<<Lit(":"), Hextet>>)
\* (25[0-5]|(2[0-4]|1{0,1}[0-9]){0,1}[0-9])
Octet6 ==
    Alt(<<Cat(<<Lit("2"), Lit("5"), Cls({"0", "1", "2", "3", "4", "5"})>>),
          Cat(<<Opt(Alt(<<Cat(<<Lit("2"), Cls({"0", "1", "2", "3", "4"})>>),
                          Cat(<<Opt(Lit("1")), Cls(Digits)>>)>>)),
                Cls(Digits)>>)>>)
\* ((octet)\.){3}(octet)
Dotted6 == Cat(<<Rep(Cat(<<Octet6, Lit(".")>>), 3, 3), Octet6>>)

ipv6Regex ==
    Alt(<<Cat(<<Rep(HextetColon, 7, 7), Hextet>>),
          Cat(<<Rep(HextetColon, 1, 7), Lit(":")>>),
          Cat(<<Rep(HextetColon, 1, 6), Lit(":"), Hextet>>),
          Cat(<<Rep(HextetColon, 1, 5), Rep(ColonHextet, 1, 2)>>),
          Cat(<<Rep(HextetColon, 1, 4), Rep(ColonHextet, 1, 3)>>),
          Cat(<<Rep(HextetColon, 1, 3), Rep(ColonHextet, 1, 4)>>),
          Cat(<<Rep(HextetColon, 1, 2), Rep(ColonHextet, 1, 5)>>),
          Cat(<<Hextet, Lit(":"), Rep(ColonHextet, 1, 6)>>),
          Cat(<<Lit(":"), Alt(<<Rep(ColonHextet, 1, 7), Lit(":")>>)>>),
          Cat(<<Lit("f"), Lit("e"), Lit("8"), Lit("0"), Lit(":"),
                Rep(Cat(<<Lit(":"), Rep(Cls(HexDigits), 0, 4)>>), 0, 4),
                Lit("%"), AtLeast(Cls(AlphaNum), 1)>>),
          Cat(<<Lit(":"), Lit(":"),
                Opt(Cat(<<Lit("f"), Lit("f"), Lit("f"), Lit("f"),
                          Opt(Cat(<<Lit(":"), Rep(Lit("0"), 1, 4)>>)),
                          Lit(":")>>)),
                Dotted6>>),
          Cat(<<Rep(HextetColon, 1, 4), Lit(":"), Dotted6>>)>>)

\* Mutant: every text passes.
isValidIPAlways(ip) == TRUE

isValidIP(ip) == Test(ipv4Regex, ip) \/ Test(ipv6Regex, ip)

(***************************************************************************)
(* Program constants and the bounds of the model                           *)
(***************************************************************************)
\* const CONCURRENCY = 10
CONCURRENCY == 10

\* .slice(0, 50)
HistoryCap == 50

\* The short project lists have 0 .. SmallScopes projects; the long one has
\* CONCURRENCY + 1, so that its scan needs a second batch.
SmallScopes == 2

Modes == {"quick", "full", "custom"}

Undefined == "undefined"

Min(a, b) == IF a < b THEN a ELSE b

(***************************************************************************)
(* Projects and probe results                                              *)
(***************************************************************************)
Letters == <<"a", "b", "c", "d", "e", "f", "g", "h", "i", "j", "k", "l", "m", "n">>

\* A project as getGCPProjects returns it; ids are one-letter strings.
Project(k) == [id |-> <<Letters[k]>>, name |-> <<"P", Letters[k]>>]

ProjectList(n) == [k \in 1..n |-> Project(k)]

\* What getGCPProjects can return: the projects of the account.
AccessibleLists ==
    {ProjectList(n) : n \in 0..SmallScopes} \cup {ProjectList(CONCURRENCY + 1)}

\* A SearchResult, reduced to the fields the scan and the history read.
Match(pid, type) == [projectId |-> pid, name |-> type]

\* The projects that may hold the address: the first two, the last of the
\* first batch and the first of the second batch.
Holders ==
    {Project(k).id : k \in {1, 2, CONCURRENCY, CONCURRENCY + 1}}

\* The project whose probe may throw.
Flaky == {Project(2).id}

\* What searchIPInProject can resolve to for a project: nothing, one match
\* in a holder, and two matches in the first project.
ProbeResults(pid) ==
    {<<>>}
    \cup (IF pid \in Holders THEN {<<Match(pid, "addresses")>>} ELSE {})
    \cup (IF pid = Project(1).id
          THEN {<<Match(pid, "addresses"), Match(pid, "instances")>>}
          ELSE {})

(***************************************************************************)
(* Search history (SearchCommand)                                          *)
(***************************************************************************)
\* Array.prototype.filter with the predicate h.ip !== ip
SelectSeqBy(h, ip) == SelectSeq(h, LAMBDA item : item.ip # ip)

\* new Set(results.map((r) => r.projectId)).size
ProjectCount(results) == Cardinality({results[k].projectId : k \in DOMAIN results})

NewItem(ip, results, mode, now) ==
    [ip |-> ip, results |-> results, timestamp |-> now,
     projectCount |-> ProjectCount(results), mode |-> mode]

\* Mutant: the entry of ip is not dropped first.
AddToHistoryNoFilter(prev, ip, results, mode, now) ==
    LET all == <<NewItem(ip, results, mode, now)>> \o prev
    IN  SubSeq(all, 1, Min(Len(all), HistoryCap))

\* Mutant: .slice(-50), the last 50 kept instead of the first 50.
AddToHistoryKeepsOldest(prev, ip, results, mode, now) ==
    LET filtered == SelectSeqBy(prev, ip)
        all == <<NewItem(ip, results, mode, now)>> \o filtered
    IN  SubSeq(all, Len(all) - Min(Len(all), HistoryCap) + 1, Len(all))

\* The state updater of addToHistory: drop the entry of ip, prepend the new
\* item, keep the first 50.
AddToHistory(prev, ip, results, mode, now) ==
    LET filtered == SelectSeqBy(prev, ip)
        all == <<NewItem(ip, results, mode, now)>> \o filtered
    IN  SubSeq(all, 1, Min(Len(all), HistoryCap))

\* Mutant: the entries whose ip starts with ip are dropped.
RemoveFromHistoryByPrefix(prev, ip) ==
    SelectSeq(prev, LAMBDA item :
                  SubSeq(item.ip, 1, Min(Len(ip), Len(item.ip))) # ip)

\* The state updater of removeFromHistory.
RemoveFromHistory(prev, ip) == SelectSeqBy(prev, ip)

\* JSON.stringify of one history item: its properties in insertion order, an
\* undefined mode left out.
StringifyItem(h) ==
    <<<<"ip", h.ip>>, <<"results", h.results>>, <<"timestamp", h.timestamp>>,
      <<"projectCount", h.projectCount>>>>
    \o (IF h.mode = Undefined THEN <<>> ELSE <<<<"mode", h.mode>>>>)

\* JSON.stringify(newHistory)
JSONStringify(h) == [k \in DOMAIN h |-> StringifyItem(h[k])]

(***************************************************************************)
(* JSON: the text in LocalStorage as a sequence of lexemes, the values     *)
(* JSON.parse builds from it, with their JavaScript type as a tag.         *)
(***************************************************************************)
Tok(k, v) == [k |-> k, v |-> v]
\* The lexemes [ ] { } , and :
Punct(c) == Tok(c, <<>>)
NullTok == Tok("null", <<>>)
StrTok(v) == Tok("str", <<v>>)
NumTok(n) == Tok("num", <<n>>)

JNull == [t |-> "null"]
JNum(n) == [t |-> "num", v |-> n]
JStr(v) == [t |-> "str", v |-> v]
JArr(items) == [t |-> "arr", items |-> items]
\* members: the <<key, value>> pairs in the order of the text
JObj(members) == [t |-> "obj", members |-> members]

\* The result of a parsing step: the value and the position after it, or a
\* SyntaxError.
Parsed(value, next) == [ok |-> TRUE, value |-> value, next |-> next]
SyntaxError == [ok |-> FALSE]

Kind(text, i) == IF i <= Len(text) THEN text[i].k ELSE "end"

RECURSIVE ParseValue(_, _), ParseElements(_, _, _), ParseMembers(_, _, _)
\* The JSON value that starts at lexeme i.
ParseValue(text, i) ==
    CASE Kind(text, i) = "null" -> Parsed(JNull, i + 1)
      [] Kind(text, i) = "num" -> Parsed(JNum(text[i].v[1]), i + 1)
      [] Kind(text, i) = "str" -> Parsed(JStr(text[i].v[1]), i + 1)
      [] Kind(text, i) = "[" ->
            IF Kind(text, i + 1) = "]"
            THEN Parsed(JArr(<<>>), i + 2)
            ELSE ParseElements(text, i + 1, <<>>)
      [] Kind(text, i) = "{" ->
            IF Kind(text, i + 1) = "}"
            THEN Parsed(JObj(<<>>), i + 2)
            ELSE ParseMembers(text, i + 1, <<>>)
      [] OTHER -> SyntaxError

\* value (, value)* ]
ParseElements(text, i, acc) ==
    LET r == ParseValue(text, i)
    IN  IF ~r.ok
        THEN SyntaxError
        ELSE CASE Kind(text, r.next) = "," ->
                      ParseElements(text, r.next + 1, Append(acc, r.value))
               [] Kind(text, r.next) = "]" ->
                      Parsed(JArr(Append(acc, r.value)), r.next + 1)
               [] OTHER -> SyntaxError

\* string : value (, string : value)* }
ParseMembers(text, i, acc) ==
    IF Kind(text, i) # "str" \/ Kind(text, i + 1) # ":"
    THEN SyntaxError
    ELSE LET r == ParseValue(text, i + 2)
         IN  IF ~r.ok
             THEN SyntaxError
             ELSE LET all == Append(acc, <<text[i].v[1], r.value>>)
                  IN  CASE Kind(text, r.next) = "," ->
                                ParseMembers(text, r.next + 1, all)
                        [] Kind(text, r.next) = "}" ->
                                Parsed(JObj(all), r.next + 1)
                        [] OTHER -> SyntaxError

\* JSON.parse(text): one value and nothing after it, or a SyntaxError.
JSONParse(text) ==
    LET r == ParseValue(text, 1)
    IN  IF r.ok /\ r.next = Len(text) + 1 THEN r ELSE SyntaxError

RECURSIVE JoinText(_, _)
\* The texts of the sequence, with a comma between two.
JoinText(texts, n) ==
    IF n = 0
    THEN <<>>
    ELSE IF n = 1
         THEN texts[1]
         ELSE JoinText(texts, n - 1) \o <<Punct(",")>> \o texts[n]

ArrayText(texts) == <<Punct("[")>> \o JoinText(texts, Len(texts)) \o <<Punct("]")>>

ObjectText(texts) == <<Punct("{")>> \o JoinText(texts, Len(texts)) \o <<Punct("}")>>

\* The text of one SearchResult.
MatchText(m) ==
    ObjectText(<<<<StrTok("projectId"), Punct(":"), StrTok(m.projectId)>>,
                 <<StrTok("name"), Punct(":"), StrTok(m.name)>>>>)

\* The text of one property of a history item.
MemberText(kv) ==
    <<StrTok(kv[1]), Punct(":")>>
    \o (CASE kv[1] = "results" ->
                 ArrayText([k \in DOMAIN kv[2] |-> MatchText(kv[2][k])])
          [] kv[1] \in {"timestamp", "projectCount"} -> <<NumTok(kv[2])>>
          [] OTHER -> <<StrTok(kv[2])>>)

\* The text JSON.stringify(newHistory) is, lexeme by lexeme.
JSONText(doc) ==
    ArrayText([k \in DOMAIN doc |->
                  ObjectText([j \in DOMAIN doc[k] |-> MemberText(doc[k][j])])])

(***************************************************************************)
(* Inputs                                                                  *)
(***************************************************************************)
\* "10.0.0.1": the address searched for.
IpA == <<"1", "0", ".", "0", ".", "0", ".", "1">>
\* "10.0.0.2": another address of the history.
IpB == <<"1", "0", ".", "0", ".", "0", ".", "2">>
\* "10.0.0": a partial address.
IpPartial == <<"1", "0", ".", "0", ".", "0">>

\* What the user submits to startSearch.
SearchTexts == {IpA, IpPartial, <<>>}

\* The custom project list as typed: "", " ", "a", "x", "b, a", "a,,x".
CustomTexts ==
    {<<>>, <<" ">>, <<"a">>, <<"x">>, <<"b", ",", " ", "a">>,
     <<"a", ",", ",", "x">>}

\* Histories the command can hold when a search starts (newest first).
InitialHistories ==
    {<<NewItem(IpB, <<Match(<<"b">>, "instances")>>, "full", 2)>>,
     <<NewItem(IpB, <<Match(<<"b">>, "instances")>>, "full", 2),
       NewItem(IpA, <<Match(<<"a">>, "addresses")>>, "quick", 1)>>}

(***************************************************************************)
(* State                                                                   *)
(***************************************************************************)
VARIABLES
    history,         \* useState<HistoryItem[]> of SearchCommand
    stored,          \* LocalStorage "search-history"
    clock,           \* Date.now(), as a logical clock
    typed,           \* the texts the user is still to submit, in order
    searchMode,      \* useState<SearchMode>
    customProjects,  \* useState<string>, the custom project list
    gcloudStatus,    \* gcloudStatus.type
    rootToast,       \* title of the last toast startSearch showed, "" if none
    accessible,      \* the projects getGCPProjects returns for the account
    scans,           \* the ResultsView instances pushed so far
    history0,        \* the history when the command was ready (never changes)
    lastOp,          \* the last direct call of addToHistory / removeFromHistory
    isHistoryLoading, \* useState(true) of SearchCommand
    storedHistory,   \* what getItem read for the load effect, <<>> until it has
    searchText,      \* useState("") of SearchCommand
    crashed,         \* a render of SearchCommand threw
    row,             \* the SearchResult a list item of ResultsView shows
    statusInfo       \* what getStatusInfo returned for it

\* The state of SearchCommand around the load of the history.
commandVars == <<isHistoryLoading, storedHistory, searchText, crashed>>

\* The state of one list item of ResultsView.
rowVars == <<row, statusInfo>>

vars ==
    <<history, stored, clock, typed, searchMode, customProjects, gcloudStatus,
      rootToast, accessible, scans, history0, lastOp, isHistoryLoading,
      storedHistory, searchText, crashed, row, statusInfo>>

(***************************************************************************)
(* startSearch                                                             *)
(***************************************************************************)
RECURSIVE Split(_, _)
\* String.prototype.split(sep): the pieces between the separators.
Split(s, sep) ==
    IF \A k \in DOMAIN s : s[k] # sep
    THEN <<s>>
    ELSE LET k == CHOOSE j \in DOMAIN s :
                      s[j] = sep /\ \A m \in 1..(j - 1) : s[m] # sep
         IN  <<SubSeq(s, 1, k - 1)>> \o Split(SubSeq(s, k + 1, Len(s)), sep)

RECURSIVE NonEmpty(_)
\* .filter((p) => p)
NonEmpty(ss) ==
    IF ss = <<>>
    THEN <<>>
    ELSE IF Head(ss) # <<>>
         THEN <<Head(ss)>> \o NonEmpty(Tail(ss))
         ELSE NonEmpty(Tail(ss))

\* customProjects.split(",").map((p) => p.trim()).filter((p) => p)
CustomProjectList(text) ==
    LET parts == Split(text, ",")
    IN  NonEmpty([k \in DOMAIN parts |-> Trim(parts[k])])

\* A ResultsView as pushed: its props, its state and the locals of its effect.
\* Of scanProgress the counts are kept; the name and id of the project last
\* finished are display text only.
NewScan(ip, mode, ids) ==
    [ip |-> ip, mode |-> mode, customProjectIds |-> ids,
     isMounted |-> TRUE, isLoading |-> TRUE,
     scanProgress |-> [current |-> 0, total |-> 0],
     results |-> <<>>,
     pc |-> "checkGcloud",
     projects |-> <<>>, i |-> 0, processedCount |-> 0,
     searchResults |-> <<>>, batch |-> {}, batchResults |-> <<>>,
     toast |-> "",
     \* history of the run, kept for the properties
     listed |-> FALSE, probed |-> <<>>, threw |-> {}, found |-> {},
     histOps |-> <<>>, left |-> <<>>, returned |-> <<>>,
     overtaken |-> FALSE]

\* const startSearch = async (ip) => { ... }, called with the next text.
\* customProjectIds is read only under mode === "custom"; elsewhere the
\* undefined prop is the empty list here.
StartSearch ==
    /\ typed # <<>>
    /\ typed' = Tail(typed)
    /\ LET ip == Head(typed)
       IN  IF ip = <<>> \/ gcloudStatus = "error"
           THEN UNCHANGED <<rootToast, scans>>
           ELSE IF ~isValidIP(Trim(ip))
           THEN /\ rootToast' = "Invalid IP Address"
                /\ UNCHANGED scans
           ELSE IF searchMode = "custom" /\ Trim(customProjects) = <<>>
           THEN /\ rootToast' = "No Custom Projects Configured"
                /\ UNCHANGED scans
           ELSE /\ scans' = Append(scans,
                      NewScan(ip, searchMode,
                              IF searchMode = "custom"
                              THEN CustomProjectList(customProjects)
                              ELSE <<>>))
                /\ UNCHANGED rootToast
    /\ UNCHANGED <<history, stored, clock, searchMode, customProjects,
                   gcloudStatus, accessible, history0, lastOp, commandVars, rowVars>>

(***************************************************************************)
(* The scan effect of ResultsView                                          *)
(***************************************************************************)
\* The result of one step of a scan: the view, and the history it may touch.
Bundle(sc, h, st, c) == [scan |-> sc, history |-> h, stored |-> st, clock |-> c]

Apply(v, b) ==
    /\ scans' = [scans EXCEPT ![v] = b.scan]
    /\ history' = b.history
    /\ stored' = b.stored
    /\ clock' = b.clock

\* Mutant: the new history is computed from the history the callback closed
\* over when it was created, not from the current one.
SaveToHistoryStale(s, h, st, c) ==
    LET newHistory == AddToHistory(history0, s.ip, s.searchResults, s.mode, c)
    IN  Bundle([s EXCEPT !.histOps = Append(@, "add")],
               newHistory, JSONStringify(newHistory), c + 1)

\* await onSaveToHistory(ip, searchResults, mode): setHistory with the
\* updater, which also writes the new history to LocalStorage.
SaveToHistory(s, h, st, c) ==
    LET newHistory == AddToHistory(h, s.ip, s.searchResults, s.mode, c)
    IN  Bundle([s EXCEPT !.histOps = Append(@, "add")],
               newHistory, JSONStringify(newHistory), c + 1)

\* await onRemoveFromHistory(ip)
DropFromHistory(s, h, st, c) ==
    LET newHistory == RemoveFromHistory(h, s.ip)
    IN  Bundle([s EXCEPT !.histOps = Append(@, "remove")],
               newHistory, JSONStringify(newHistory), c)

\* projects.filter((p) => allowedIds.has(p.id))
RECURSIVE FilterProjects(_, _)
FilterProjects(projects, allowedIds) ==
    IF projects = <<>>
    THEN <<>>
    ELSE IF Head(projects).id \in allowedIds
         THEN <<Head(projects)>> \o FilterProjects(Tail(projects), allowedIds)
         ELSE FilterProjects(Tail(projects), allowedIds)

\* Mutant: the custom list is not applied.
ScopeSetUnfiltered(s, listed) == listed

\* The projects to scan: all of them, or in custom mode those of the list.
ScopeSet(s, listed) ==
    IF s.mode = "custom"
    THEN FilterProjects(listed, Range(s.customProjectIds))
    ELSE listed

\* Mutant: the early stop is never taken.
StopEarlyNever(s) == FALSE

\* Mutant: the early stop is taken in every mode.
StopEarlyAnyMode(s) == s.searchResults # <<>>

\* mode === "quick" && searchResults.length > 0
StopEarly(s) == s.mode = "quick" /\ s.searchResults # <<>>

\* Mutant: the slice runs to the end of the list.
BatchOfUnbounded(s) == (s.i + 1)..Len(s.projects)

\* projects.slice(i, i + CONCURRENCY), as the indexes of the projects.
BatchOf(s) == (s.i + 1)..Min(s.i + CONCURRENCY, Len(s.projects))

\* batch.map(async (project) => ...): every probe of the batch is started.
Dispatch(s) ==
    LET b == BatchOf(s)
    IN  [s EXCEPT !.pc = "batch", !.batch = b, !.batchResults = <<>>,
                  !.probed = @ \o [k \in 1..Cardinality(b) |-> s.projects[s.i + k].id]]

\* setScanProgress((prev) => ({ ...prev, current: projects.length }))
FinalProgress(s) == [s.scanProgress EXCEPT !.current = Len(s.projects)]

\* Mutant: a scan without matches leaves the history alone.
CompleteKeepsStale(s, h, st, c) ==
    IF ~s.isMounted
    THEN Bundle([s EXCEPT !.pc = "done"], h, st, c)
    ELSE LET s1 == [s EXCEPT !.scanProgress = FinalProgress(s),
                             !.results = s.searchResults]
         IN  IF Len(s.searchResults) > 0
             THEN LET b == SaveToHistory(s1, h, st, c)
                  IN  [b EXCEPT !.scan.isLoading = FALSE, !.scan.pc = "done"]
             ELSE Bundle([s1 EXCEPT !.toast = "No Resources Found",
                                    !.pc = "toast"], h, st, c)

\* Mutant: the completion always drops the entry first and then saves the
\* matches, if any.
CompleteDropsThenSaves(s, h, st, c) ==
    IF ~s.isMounted
    THEN Bundle([s EXCEPT !.pc = "done"], h, st, c)
    ELSE LET s1 == [s EXCEPT !.scanProgress = FinalProgress(s),
                             !.results = s.searchResults]
             d == DropFromHistory(s1, h, st, c)
         IN  IF Len(s.searchResults) > 0
             THEN LET b == SaveToHistory(d.scan, d.history, d.stored, d.clock)
                  IN  [b EXCEPT !.scan.isLoading = FALSE, !.scan.pc = "done"]
             ELSE [d EXCEPT !.scan.toast = "No Resources Found",
                            !.scan.pc = "toast"]

\* Mutant: the finally block does not run after a save.
CompleteKeepsLoading(s, h, st, c) ==
    IF ~s.isMounted
    THEN Bundle([s EXCEPT !.pc = "done"], h, st, c)
    ELSE LET s1 == [s EXCEPT !.scanProgress = FinalProgress(s),
                             !.results = s.searchResults]
         IN  IF Len(s.searchResults) > 0
             THEN LET b == SaveToHistory(s1, h, st, c)
                  IN  [b EXCEPT !.scan.pc = "done"]
             ELSE LET b == DropFromHistory(s1, h, st, c)
                  IN  [b EXCEPT !.scan.toast = "No Resources Found",
                                !.scan.pc = "toast"]

\* After the loop: nothing when unmounted; else the final progress, the
\* results, and the history: saved with matches, removed without.
Complete(s, h, st, c) ==
    IF ~s.isMounted
    THEN Bundle([s EXCEPT !.pc = "done"], h, st, c)
    ELSE LET s1 == [s EXCEPT !.scanProgress = FinalProgress(s),
                             !.results = s.searchResults]
         IN  IF Len(s.searchResults) > 0
             THEN LET b == SaveToHistory(s1, h, st, c)
                  IN  [b EXCEPT !.scan.isLoading = FALSE, !.scan.pc = "done"]
             ELSE LET b == DropFromHistory(s1, h, st, c)
                  IN  [b EXCEPT !.scan.toast = "No Resources Found",
                                !.scan.pc = "toast"]

\* Mutant: the loop does not look at isMounted.
LoopHeadIgnoresUnmount(s, h, st, c) ==
    IF s.i < Len(s.projects) /\ ~StopEarly(s)
    THEN Bundle(Dispatch(s), h, st, c)
    ELSE Complete(s, h, st, c)

\* The head of the for loop: the next batch, or the end of the loop.
LoopHead(s, h, st, c) ==
    IF s.i < Len(s.projects) /\ s.isMounted /\ ~StopEarly(s)
    THEN Bundle(Dispatch(s), h, st, c)
    ELSE Complete(s, h, st, c)

\* Mutant: the empty scope set drops the entry in custom mode too.
EmptyScopeSetAlwaysDrops(s, h, st, c) ==
    DropFromHistory([s EXCEPT !.isLoading = IF s.isMounted THEN FALSE ELSE @,
                              !.toast = "No Accessible Projects Found",
                              !.pc = "toast"], h, st, c)

\* Mutant: the empty scope set never drops the entry.
EmptyScopeSetNeverDrops(s, h, st, c) ==
    Bundle([s EXCEPT !.isLoading = IF s.isMounted THEN FALSE ELSE @,
                     !.toast = "No Accessible Projects Found",
                     !.pc = "toast"], h, st, c)

\* projects.length === 0
EmptyScopeSet(s, h, st, c) ==
    LET s1 == [s EXCEPT !.isLoading = IF s.isMounted THEN FALSE ELSE @,
                        !.toast = "No Accessible Projects Found",
                        !.pc = "toast"]
    IN  IF s.mode # "custom"
        THEN DropFromHistory(s1, h, st, c)
        ELSE Bundle(s1, h, st, c)

\* The probes of the current batch that have not settled.
Pending(s) == s.batch \ DOMAIN s.batchResults

RECURSIVE FlatFrom(_, _, _)
\* batchResults.flat(): the results of the batch, in the order of the batch.
FlatFrom(batchResults, lo, hi) ==
    IF lo > hi
    THEN <<>>
    ELSE batchResults[lo] \o FlatFrom(batchResults, lo + 1, hi)

\* Mutant: the results of the batch are joined last project first.
FlatLastFirst(s) ==
    LET n == Cardinality(s.batch)
    IN  FlatFrom([k \in (s.i + 1)..(s.i + n) |->
                     s.batchResults[2 * s.i + n + 1 - k]],
                 s.i + 1, s.i + n)

Flat(s) == FlatFrom(s.batchResults, s.i + 1, s.i + Cardinality(s.batch))

\* Mutant: the probes are counted, the progress is shown only at the end.
ProbeSettledSilent(s, k, result) ==
    [s EXCEPT !.batchResults = @ @@ (k :> result),
              !.processedCount = s.processedCount + 1]

\* The finally block of one probe: count it and, when mounted, show it.
ProbeSettled(s, k, result) ==
    LET n == s.processedCount + 1
    IN  [s EXCEPT !.batchResults = @ @@ (k :> result),
                  !.processedCount = n,
                  !.scanProgress =
                      IF s.isMounted
                      THEN [@ EXCEPT !.current = n]
                      ELSE @]

\* Mutant: no catch block in the probe, so the rejection reaches the catch
\* block of the scan.
ProbeCaughtRethrows(s, k) ==
    [ProbeSettled(s, k, <<>>) EXCEPT
        !.toast = IF s.isMounted THEN "Search Failed" ELSE @,
        !.pc = IF s.isMounted THEN "toast" ELSE "done"]

\* What the catch block of a probe makes of a rejected searchIPInProject.
ProbeCaught(s, k) == ProbeSettled(s, k, <<>>)

\* Mutant: in quick mode only the matches of the first project that has any
\* are kept.
JoinedFirstMatchOnly(s) ==
    LET newResults == Flat(s)
        first == IF newResults = <<>>
                 THEN <<>>
                 ELSE SelectSeq(newResults,
                                LAMBDA m : m.projectId = newResults[1].projectId)
    IN  [s EXCEPT !.searchResults =
                      IF Len(newResults) > 0
                      THEN @ \o (IF s.mode = "quick" THEN first ELSE newResults)
                      ELSE @,
                  !.i = @ + CONCURRENCY,
                  !.batch = {}, !.batchResults = <<>>]

\* if (newResults.length > 0) searchResults.push(...newResults), then i += 10
Joined(s) ==
    LET newResults == Flat(s)
    IN  [s EXCEPT !.searchResults = IF Len(newResults) > 0 THEN @ \o newResults ELSE @,
                  !.i = @ + CONCURRENCY,
                  !.batch = {}, !.batchResults = <<>>]

\* checkGcloudInstalled() resolves.
CheckGcloud(v) ==
    /\ scans[v].pc = "checkGcloud"
    /\ \E installed \in BOOLEAN :
          scans' = [scans EXCEPT ![v] =
                      IF installed
                      THEN [@ EXCEPT !.pc = "getProjects"]
                      ELSE [@ EXCEPT !.toast = "Gcloud CLI Not Found",
                                     !.pc = "toast"]]
    /\ UNCHANGED <<history, stored, clock, typed, searchMode, customProjects,
                   gcloudStatus, rootToast, accessible, history0, lastOp,
                   commandVars, rowVars>>

\* Mutant: the catch block drops the history entry of the ip.
CatchBlockDrops(s, h, st, c) ==
    IF ~s.isMounted
    THEN Bundle([s EXCEPT !.pc = "done"], h, st, c)
    ELSE DropFromHistory([s EXCEPT !.toast = "Search Failed", !.pc = "toast"],
                         h, st, c)

\* catch (error) { if (!isMounted) return; await showToast(...) }
CatchBlock(s, h, st, c) ==
    IF ~s.isMounted
    THEN Bundle([s EXCEPT !.pc = "done"], h, st, c)
    ELSE Bundle([s EXCEPT !.toast = "Search Failed", !.pc = "toast"], h, st, c)

\* getGCPProjects() rejects.
GetProjectsThrows(v) ==
    /\ scans[v].pc = "getProjects"
    /\ Apply(v, CatchBlock(scans[v], history, stored, clock))
    /\ UNCHANGED <<typed, searchMode, customProjects, gcloudStatus, rootToast,
                   accessible, history0, lastOp, commandVars, rowVars>>

\* getGCPProjects() resolves: filter, first progress, then the empty branch
\* or the first batch.
GetProjectsReturns(v) ==
    /\ scans[v].pc = "getProjects"
    /\ LET s == scans[v]
           projects == ScopeSet(s, accessible)
           s1 == [s EXCEPT !.projects = projects,
                           !.listed = TRUE,
                           !.scanProgress =
                               IF s.isMounted
                               THEN [current |-> 0, total |-> Len(projects)]
                               ELSE @]
       IN  Apply(v, IF Len(projects) = 0
                    THEN EmptyScopeSet(s1, history, stored, clock)
                    ELSE LoopHead(s1, history, stored, clock))
    /\ UNCHANGED <<typed, searchMode, customProjects, gcloudStatus, rootToast,
                   accessible, history0, lastOp, commandVars, rowVars>>

\* searchIPInProject resolves for project k of the batch.
ProbeReturns(v, k) ==
    /\ scans[v].pc = "batch"
    /\ k \in Pending(scans[v])
    /\ \E result \in ProbeResults(scans[v].projects[k].id) :
          scans' = [scans EXCEPT ![v] =
                      [ProbeSettled(@, k, result) EXCEPT
                          !.found = @ \cup Range(result),
                          !.returned = @ @@ (k :> result),
                          !.overtaken =
                              @ \/ \E j \in Pending(scans[v]) : j < k]]
    /\ UNCHANGED <<history, stored, clock, typed, searchMode, customProjects,
                   gcloudStatus, rootToast, accessible, history0, lastOp,
                   commandVars, rowVars>>

\* searchIPInProject rejects for project k of the batch.
ProbeThrows(v, k) ==
    /\ scans[v].pc = "batch"
    /\ k \in Pending(scans[v])
    /\ scans[v].projects[k].id \in Flaky
    /\ scans' = [scans EXCEPT ![v] =
                    [ProbeCaught(@, k) EXCEPT
                        !.threw = @ \cup {scans[v].projects[k].id},
                        !.returned = @ @@ (k :> <<>>),
                        !.overtaken =
                            @ \/ \E j \in Pending(scans[v]) : j < k]]
    /\ UNCHANGED <<history, stored, clock, typed, searchMode, customProjects,
                   gcloudStatus, rootToast, accessible, history0, lastOp,
                   commandVars, rowVars>>

\* Promise.all resolves: collect the batch and go round the loop.
BatchJoin(v) ==
    /\ scans[v].pc = "batch"
    /\ Pending(scans[v]) = {}
    /\ Apply(v, LoopHead(Joined(scans[v]), history, stored, clock))
    /\ UNCHANGED <<typed, searchMode, customProjects, gcloudStatus, rootToast,
                   accessible, history0, lastOp, commandVars, rowVars>>

\* Mutant: the finally block is missing, the loading state stays.
AfterToastKeepsLoading(v) ==
    /\ scans[v].pc = "toast"
    /\ scans' = [scans EXCEPT ![v] = [@ EXCEPT !.pc = "done"]]
    /\ UNCHANGED <<history, stored, clock, typed, searchMode, customProjects,
                   gcloudStatus, rootToast, accessible, history0, lastOp,
                   commandVars, rowVars>>

\* showToast resolves; return; finally { if (isMounted) setIsLoading(false) }
AfterToast(v) ==
    /\ scans[v].pc = "toast"
    /\ scans' = [scans EXCEPT ![v] =
                    [@ EXCEPT !.isLoading = IF scans[v].isMounted THEN FALSE ELSE @,
                              !.pc = "done"]]
    /\ UNCHANGED <<history, stored, clock, typed, searchMode, customProjects,
                   gcloudStatus, rootToast, accessible, history0, lastOp,
                   commandVars, rowVars>>

\* What the scan had done when its view was popped, kept for the properties.
Snapshot(s) ==
    [pc |-> s.pc, probed |-> s.probed, processedCount |-> s.processedCount,
     histOps |-> s.histOps, scanProgress |-> s.scanProgress,
     isLoading |-> s.isLoading, results |-> s.results]

\* The view is popped: the cleanup of the effect.
Unmount(v) ==
    /\ scans[v].isMounted
    /\ scans' = [scans EXCEPT ![v] =
                    [@ EXCEPT !.isMounted = FALSE, !.left = <<Snapshot(scans[v])>>]]
    /\ UNCHANGED <<history, stored, clock, typed, searchMode, customProjects,
                   gcloudStatus, rootToast, accessible, history0, lastOp,
                   commandVars, rowVars>>

NoOp == [kind |-> "none", n |-> 0]

\* No list item is shown, and nothing was classified.
NoRow == [resourceType |-> "none"]

NoInfo == [text |-> <<>>, color |-> "none"]

(***************************************************************************)
(* Specification: one search, from the command's list to the end of scan   *)
(***************************************************************************)
Init ==
    /\ history \in InitialHistories
    /\ stored = JSONStringify(history)
    /\ history0 = history
    /\ clock = 3
    /\ typed \in {<<t>> : t \in SearchTexts}
    /\ searchMode \in Modes
    /\ customProjects \in (IF searchMode = "custom" THEN CustomTexts ELSE {<<>>})
    /\ gcloudStatus \in {"success", "error"}
    /\ rootToast = ""
    /\ accessible \in AccessibleLists
    /\ scans = <<>>
    /\ lastOp = NoOp
    /\ isHistoryLoading = FALSE
    /\ storedHistory = <<>>
    /\ searchText = <<>>
    /\ crashed = FALSE
    /\ row = NoRow
    /\ statusInfo = NoInfo

Next ==
    \/ StartSearch
    \/ \E v \in DOMAIN scans : CheckGcloud(v)
    \/ \E v \in DOMAIN scans : GetProjectsThrows(v)
    \/ \E v \in DOMAIN scans : GetProjectsReturns(v)
    \/ \E v \in DOMAIN scans : \E k \in scans[v].batch : ProbeReturns(v, k)
    \/ \E v \in DOMAIN scans : \E k \in scans[v].batch : ProbeThrows(v, k)
    \/ \E v \in DOMAIN scans : BatchJoin(v)
    \/ \E v \in DOMAIN scans : AfterToast(v)
    \/ \E v \in DOMAIN scans : Unmount(v)

Spec == Init /\ [][Next]_vars

(***************************************************************************)
(* Specification: one search for a valid address, with every call the scan *)
(* awaits returning or throwing in the end.  The account of two batches is *)
(* scanned in quick mode, the smaller accounts in every mode.              *)
(***************************************************************************)
InitLive ==
    /\ history = <<NewItem(IpA, <<Match(<<"a">>, "addresses")>>, "quick", 1)>>
    /\ stored = JSONStringify(history)
    /\ history0 = history
    /\ clock = 3
    /\ typed = <<IpA>>
    /\ searchMode \in Modes
    /\ customProjects \in (IF searchMode = "custom"
                           THEN {<<"a">>, <<"x">>}
                           ELSE {<<>>})
    /\ gcloudStatus = "success"
    /\ rootToast = ""
    /\ accessible \in (IF searchMode = "quick"
                       THEN AccessibleLists
                       ELSE {ProjectList(n) : n \in 0..SmallScopes})
    /\ scans = <<>>
    /\ lastOp = NoOp
    /\ isHistoryLoading = FALSE
    /\ storedHistory = <<>>
    /\ searchText = <<>>
    /\ crashed = FALSE
    /\ row = NoRow
    /\ statusInfo = NoInfo

\* One step of a scan: a call that the scan awaits settles.
ScanStep ==
    \E v \in DOMAIN scans :
        \/ CheckGcloud(v)
        \/ GetProjectsReturns(v)
        \/ GetProjectsThrows(v)
        \/ \E k \in scans[v].batch : ProbeReturns(v, k) \/ ProbeThrows(v, k)
        \/ BatchJoin(v)
        \/ AfterToast(v)

\* While the scan awaits a call (checkGcloudInstalled, getGCPProjects, a
\* searchIPInProject, Promise.all of settled probes, showToast), some awaited
\* call settles in the end.  The user is never bound to submit the search or
\* to leave the view.
Settles == WF_vars(ScanStep)

SpecLive == InitLive /\ [][Next]_vars /\ Settles

(***************************************************************************)
(* Specification: two searches submitted one after the other, their scans  *)
(* running side by side over the same history.                             *)
(***************************************************************************)
\* " 10.0.0.1": an address typed after a blank.
IpPadded == <<" ">> \o IpA

\* The two texts submitted.
TextPairs == {<<IpA, IpB>>, <<IpPadded, IpB>>}

InitTwo ==
    /\ history = <<NewItem(IpB, <<Match(<<"b">>, "instances")>>, "full", 2),
                   NewItem(IpA, <<Match(<<"a">>, "addresses")>>, "quick", 1)>>
    /\ stored = JSONStringify(history)
    /\ history0 = history
    /\ clock = 3
    /\ typed \in TextPairs
    /\ searchMode \in {"quick", "full"}
    /\ customProjects = <<>>
    /\ gcloudStatus = "success"
    /\ rootToast = ""
    /\ accessible \in {ProjectList(n) : n \in 1..SmallScopes}
    /\ scans = <<>>
    /\ lastOp = NoOp
    /\ isHistoryLoading = FALSE
    /\ storedHistory = <<>>
    /\ searchText = <<>>
    /\ crashed = FALSE
    /\ row = NoRow
    /\ statusInfo = NoInfo

SpecTwo == InitTwo /\ [][Next]_vars

(***************************************************************************)
(* Specification: the history under direct calls of addToHistory and       *)
(* removeFromHistory, from histories that upserts from the empty history   *)
(* build.                                                                   *)
(***************************************************************************)
\* The number of direct calls explored.
MaxCacheOps == 3

DigitSeq == <<"0", "1", "2", "3", "4", "5", "6", "7", "8", "9">>

\* "10.0.0.k" for k < 100
Ip4(k) ==
    <<"1", "0", ".", "0", ".", "0", ".">>
    \o (IF k < 10
        THEN <<DigitSeq[k + 1]>>
        ELSE <<DigitSeq[(k \div 10) + 1], DigitSeq[(k % 10) + 1]>>)

\* The history after addToHistory of "10.0.0.1" .. "10.0.0.n", in this order,
\* from the empty history: the newest first, the k-th upsert at time k.
Prefilled(n) ==
    [j \in 1..n |->
        NewItem(Ip4(n + 1 - j), <<Match(<<"a">>, "addresses")>>, "quick", n + 1 - j)]

PrefillCounts == {0, HistoryCap - 1, HistoryCap}

\* The addresses of the direct calls: the oldest and the newest of a full
\* history, and two new ones.
CacheIps == {Ip4(1), Ip4(HistoryCap), Ip4(HistoryCap + 1), Ip4(HistoryCap + 2)}

CachePayloads ==
    {[results |-> <<Match(<<"a">>, "addresses")>>, mode |-> "quick"],
     [results |-> <<Match(<<"b">>, "instances"), Match(<<"c">>, "instances")>>,
      mode |-> "full"]}

InitCache ==
    /\ \E n \in PrefillCounts :
          /\ history = Prefilled(n)
          /\ clock = n + 1
    /\ stored = JSONStringify(history)
    /\ history0 = history
    /\ lastOp = NoOp
    /\ typed = <<>>
    /\ searchMode = "quick"
    /\ customProjects = <<>>
    /\ gcloudStatus = "success"
    /\ rootToast = ""
    /\ accessible = <<>>
    /\ scans = <<>>
    /\ isHistoryLoading = FALSE
    /\ storedHistory = <<>>
    /\ searchText = <<>>
    /\ crashed = FALSE
    /\ row = NoRow
    /\ statusInfo = NoInfo

\* addToHistory(ip, results, mode)
CacheUpsert ==
    /\ lastOp.n < MaxCacheOps
    /\ \E ip \in CacheIps, p \in CachePayloads :
          /\ history' = AddToHistory(history, ip, p.results, p.mode, clock)
          /\ lastOp' = [kind |-> "add", n |-> lastOp.n + 1, ip |-> ip,
                        results |-> p.results, mode |-> p.mode,
                        before |-> history]
    /\ stored' = JSONStringify(history')
    /\ clock' = clock + 1
    /\ UNCHANGED <<typed, searchMode, customProjects, gcloudStatus, rootToast,
                   accessible, scans, history0, commandVars, rowVars>>

\* Mutant: removeFromHistory does not write the new history to LocalStorage.
CacheRemoveUnsaved ==
    /\ lastOp.n < MaxCacheOps
    /\ \E ip \in CacheIps :
          /\ history' = RemoveFromHistory(history, ip)
          /\ lastOp' = [kind |-> "remove", n |-> lastOp.n + 1, ip |-> ip,
                        before |-> history]
    /\ UNCHANGED <<stored, clock, typed, searchMode, customProjects,
                   gcloudStatus, rootToast, accessible, scans, history0,
                   commandVars, rowVars>>

\* removeFromHistory(ip)
CacheRemove ==
    /\ lastOp.n < MaxCacheOps
    /\ \E ip \in CacheIps :
          /\ history' = RemoveFromHistory(history, ip)
          /\ lastOp' = [kind |-> "remove", n |-> lastOp.n + 1, ip |-> ip,
                        before |-> history]
    /\ stored' = JSONStringify(history')
    /\ UNCHANGED <<clock, typed, searchMode, customProjects, gcloudStatus,
                   rootToast, accessible, scans, history0, commandVars, rowVars>>

NextCache == CacheUpsert \/ CacheRemove

SpecCache == InitCache /\ [][NextCache]_vars

(***************************************************************************)
(* Specification: the same direct calls from a history one item short of   *)
(* the cap, where a call can add, replace, evict or remove an item.  The   *)
(* stored copy is parsed back after every call.                            *)
(***************************************************************************)
InitStore ==
    /\ history = Prefilled(HistoryCap - 1)
    /\ clock = HistoryCap
    /\ stored = JSONStringify(history)
    /\ history0 = history
    /\ lastOp = NoOp
    /\ typed = <<>>
    /\ searchMode = "quick"
    /\ customProjects = <<>>
    /\ gcloudStatus = "success"
    /\ rootToast = ""
    /\ accessible = <<>>
    /\ scans = <<>>
    /\ isHistoryLoading = FALSE
    /\ storedHistory = <<>>
    /\ searchText = <<>>
    /\ crashed = FALSE
    /\ row = NoRow
    /\ statusInfo = NoInfo

SpecStore == InitStore /\ [][NextCache]_vars

(***************************************************************************)
(* Specification: the load of the stored history when SearchCommand        *)
(* mounts, and the renders that follow. Here history holds the value       *)
(* setHistory received, with its JavaScript type.                           *)
(***************************************************************************)
\* o[key] of an object; JSON.parse keeps the last of two members of a name.
HasMember(o, key) == \E j \in DOMAIN o.members : o.members[j][1] = key

Member(o, key) ==
    LET j == CHOOSE m \in DOMAIN o.members :
                 /\ o.members[m][1] = key
                 /\ \A n \in DOMAIN o.members : o.members[n][1] = key => n <= m
    IN  o.members[j][2]

\* A parsed SearchResult as the code reads it: r.projectId, r.name.
MatchOf(o) == Match(Member(o, "projectId").v, Member(o, "name").v)

\* A parsed history item as the code reads it: item.ip, item.results,
\* item.timestamp, item.projectCount, item.mode (undefined when absent).
ItemOf(o) ==
    [ip |-> Member(o, "ip").v,
     results |-> LET rs == Member(o, "results").items
                 IN  [k \in DOMAIN rs |-> MatchOf(rs[k])],
     timestamp |-> Member(o, "timestamp").v,
     projectCount |-> Member(o, "projectCount").v,
     mode |-> IF HasMember(o, "mode") THEN Member(o, "mode").v ELSE Undefined]

\* setHistory(parsed): the parsed array as the HistoryItem[] the state holds.
HistoryOf(doc) == [k \in DOMAIN doc.items |-> ItemOf(doc.items[k])]

\* String.prototype.includes
Includes(str, sub) ==
    \E i \in 0..(Len(str) - Len(sub)) : SubSeq(str, i + 1, i + Len(sub)) = sub

\* h.ip.includes(searchText) throws a TypeError: h is null, or h.ip is
\* neither a string nor an array.
IpIncludesThrows(h) ==
    \/ h.t # "obj"
    \/ ~HasMember(h, "ip")
    \/ Member(h, "ip").t \notin {"str", "arr"}

\* h.ip.includes(searchText), where it does not throw.
IpIncludes(h, text) ==
    LET ip == Member(h, "ip")
    IN  IF ip.t = "str"
        THEN Includes(ip.v, text)
        ELSE \E k \in DOMAIN ip.items :
                 ip.items[k].t = "str" /\ ip.items[k].v = text

\* history.filter((h) => h.ip.includes(searchText))
filteredHistory(hist, text) ==
    SelectSeq(hist.items, LAMBDA h : IpIncludes(h, text))

\* item.results.map((r) => `${r.projectName || r.projectId} ...`) throws a
\* TypeError: results is not an array, or one of its elements is null.
ItemThrows(item) ==
    \/ ~HasMember(item, "results")
    \/ Member(item, "results").t # "arr"
    \/ \E k \in DOMAIN Member(item, "results").items :
          Member(item, "results").items[k].t = "null"

\* A render of SearchCommand throws: in the memo of filteredHistory, or,
\* unless the error view is returned before, in the list of the items.
RenderThrows(hist, text, status) ==
    \/ hist.t # "arr"
    \/ \E k \in DOMAIN hist.items : IpIncludesThrows(hist.items[k])
    \/ /\ status # "error"
       /\ \E k \in DOMAIN filteredHistory(hist, text) :
             ItemThrows(filteredHistory(hist, text)[k])

\* The texts the "search-history" item can hold when the command mounts:
\* none, what the command wrote, and texts that are not that.
WrittenTexts ==
    {JSONText(JSONStringify(h)) : h \in InitialHistories \cup {<<>>}}

StoredTexts ==
    {<<>>}
    \cup WrittenTexts
    \cup {SubSeq(w, 1, Len(w) - 1) : w \in WrittenTexts}
    \cup {<<Punct("{"), Punct("}")>>, <<NullTok>>, <<NumTok(42)>>, <<StrTok(IpA)>>,
          <<Punct("["), NumTok(1), Punct("]")>>,
          <<Punct("["), NullTok, Punct("]")>>,
          <<Punct("["), Punct("{"), Punct("}"), Punct("]")>>,
          ArrayText(<<ObjectText(<<<<StrTok("ip"), Punct(":"), NumTok(5)>>>>)>>),
          ArrayText(<<ObjectText(<<<<StrTok("ip"), Punct(":"), StrTok(IpA)>>>>)>>),
          ArrayText(<<ObjectText(<<<<StrTok("ip"), Punct(":"), StrTok(IpA)>>,
                                   <<StrTok("results"), Punct(":"), Punct("["),
                                     NullTok, Punct("]")>>>>)>>),
          ArrayText(<<ObjectText(<<<<StrTok("ip"), Punct(":"), StrTok(IpA)>>,
                                   <<StrTok("results"), Punct(":"), Punct("["),
                                     Punct("]")>>>>)>>)}

\* What the user types into the search bar.
TypedTexts == {<<>>, <<"1">>, <<"x">>, IpA}

InitLoad ==
    /\ stored \in StoredTexts
    /\ history = JArr(<<>>)
    /\ history0 = history
    /\ isHistoryLoading = TRUE
    /\ storedHistory = <<>>
    /\ searchText = <<>>
    /\ crashed = FALSE
    /\ gcloudStatus \in {"success", "error"}
    /\ clock = 3
    /\ typed = <<>>
    /\ searchMode = "quick"
    /\ customProjects = <<>>
    /\ rootToast = ""
    /\ accessible = <<>>
    /\ scans = <<>>
    /\ lastOp = NoOp
    /\ row = NoRow
    /\ statusInfo = NoInfo

\* The effect that loads the history: getItem resolves, the text is parsed,
\* setHistory(parsed), setIsHistoryLoading(false), and the render.
LoadHistory ==
    /\ isHistoryLoading
    /\ ~crashed
    /\ history' = IF stored # <<>> /\ JSONParse(stored).ok
                  THEN JSONParse(stored).value
                  ELSE history
    /\ isHistoryLoading' = FALSE
    /\ crashed' = RenderThrows(history', searchText, gcloudStatus)
    /\ UNCHANGED <<stored, clock, typed, searchMode, customProjects,
                   gcloudStatus, rootToast, accessible, scans, history0,
                   lastOp, storedHistory, searchText, rowVars>>

\* onSearchTextChange={setSearchText}, and the render.
SetSearchText(text) ==
    /\ ~crashed
    /\ text # searchText
    /\ searchText' = text
    /\ crashed' = RenderThrows(history, text, gcloudStatus)
    /\ UNCHANGED <<history, stored, clock, typed, searchMode, customProjects,
                   gcloudStatus, rootToast, accessible, scans, history0,
                   lastOp, isHistoryLoading, storedHistory, rowVars>>

NextLoad ==
    \/ LoadHistory
    \/ \E text \in TypedTexts : SetSearchText(text)

SpecLoad == InitLoad /\ [][NextLoad]_vars

(***************************************************************************)
(* Specification: the load of the stored history side by side with calls   *)
(* of addToHistory and removeFromHistory made before it has finished (a    *)
(* scan started at once can complete first: nothing orders the two).  The  *)
(* store holds what an earlier run of the command wrote; history holds the *)
(* items and stored their serialization, as under SpecCache.               *)
(***************************************************************************)
InitRace ==
    /\ history = <<>>
    /\ history0 = history
    /\ stored \in {JSONStringify(h) : h \in InitialHistories \cup {<<>>}}
    /\ clock = 3
    /\ lastOp = NoOp
    /\ isHistoryLoading = TRUE
    /\ storedHistory = <<>>
    /\ typed = <<>>
    /\ searchMode = "quick"
    /\ customProjects = <<>>
    /\ gcloudStatus = "success"
    /\ rootToast = ""
    /\ accessible = <<>>
    /\ scans = <<>>
    /\ searchText = <<>>
    /\ crashed = FALSE
    /\ row = NoRow
    /\ statusInfo = NoInfo

\* LocalStorage.getItem("search-history") reads the store.
GetItem ==
    /\ isHistoryLoading
    /\ storedHistory = <<>>
    /\ storedHistory' = <<stored>>
    /\ UNCHANGED <<history, stored, clock, typed, searchMode, customProjects,
                   gcloudStatus, rootToast, accessible, scans, history0,
                   lastOp, isHistoryLoading, searchText, crashed, rowVars>>

\* The await resumes: JSON.parse of the text read, setHistory(parsed),
\* setIsHistoryLoading(false).  The text of a written history is never empty.
SetParsedHistory ==
    /\ isHistoryLoading
    /\ storedHistory # <<>>
    /\ LET r == JSONParse(JSONText(storedHistory[1]))
       IN  history' = IF r.ok THEN HistoryOf(r.value) ELSE history
    /\ isHistoryLoading' = FALSE
    /\ UNCHANGED <<stored, clock, typed, searchMode, customProjects,
                   gcloudStatus, rootToast, accessible, scans, history0,
                   lastOp, storedHistory, searchText, crashed, rowVars>>

NextRace ==
    \/ GetItem
    \/ SetParsedHistory
    \/ isHistoryLoading /\ CacheUpsert
    \/ isHistoryLoading /\ CacheRemove

SpecRace == InitRace /\ [][NextRace]_vars

(***************************************************************************)
(* getStatusInfo: the status text and colour of a list item of ResultsView *)
(***************************************************************************)
LowerLetters ==
    <<"a", "b", "c", "d", "e", "f", "g", "h", "i", "j", "k", "l", "m",
      "n", "o", "p", "q", "r", "s", "t", "u", "v", "w", "x", "y", "z">>

UpperLetters ==
    <<"A", "B", "C", "D", "E", "F", "G", "H", "I", "J", "K", "L", "M",
      "N", "O", "P", "Q", "R", "S", "T", "U", "V", "W", "X", "Y", "Z">>

\* String.prototype.toUpperCase
ToUpperCase(str) ==
    [k \in DOMAIN str |->
        IF \E n \in DOMAIN LowerLetters : LowerLetters[n] = str[k]
        THEN UpperLetters[CHOOSE n \in DOMAIN LowerLetters : LowerLetters[n] = str[k]]
        ELSE str[k]]

\* An optional property: <<>> when it is missing, <<value>> when it is there.
Missing == <<>>
Some(value) == <<value>>

\* The strings the code compares with and shows.
RESERVED == <<"R", "E", "S", "E", "R", "V", "E", "D">>
IN_USE == <<"I", "N", "_", "U", "S", "E">>
RUNNING == <<"R", "U", "N", "N", "I", "N", "G">>
TERMINATED == <<"T", "E", "R", "M", "I", "N", "A", "T", "E", "D">>
ACTIVE == <<"A", "C", "T", "I", "V", "E">>
READY == <<"R", "E", "A", "D", "Y">>
Dash == <<"-">>

\* result.status || fallback
StatusOr(result, fallback) ==
    IF result.status # Missing /\ result.status[1] # <<>>
    THEN result.status[1]
    ELSE fallback

\* result.status?.toUpperCase()
StatusRaw(result) ==
    IF result.status = Missing
    THEN Missing
    ELSE Some(ToUpperCase(result.status[1]))

\* The truthiness of an optional string.
Truthy(opt) == opt # Missing /\ opt[1] # <<>>

\* The truthiness of result.isStatic
IsStatic(result) == result.isStatic = Some(TRUE)

StatusInfo(text, color) == [text |-> text, color |-> color]

\* Mutant: the colour of an address follows its status only.
AddressInfoByStatusOnly(result) ==
    LET statusRaw == StatusRaw(result)
        typeStr == IF IsStatic(result) THEN <<"S", "t", "a", "t", "i", "c">> ELSE <<"E", "p", "h", "e", "m", "e", "r", "a", "l">>
        statusStr == IF statusRaw = Some(IN_USE) THEN <<"I", "n", " ", "U", "s", "e">>
                     ELSE IF statusRaw = Some(RESERVED) THEN <<"R", "e", "s", "e", "r", "v", "e", "d">>
                     ELSE StatusOr(result, <<>>)
        text == IF Truthy(statusRaw)
                THEN statusStr \o <<" ", "(">> \o typeStr \o <<")">>
                ELSE typeStr
        color == IF statusRaw = Some(RESERVED) THEN "Green"
                 ELSE IF statusRaw = Some(IN_USE) THEN "Orange"
                 ELSE "SecondaryText"
    IN  StatusInfo(text, color)

\* resourceType === "addresses"
AddressInfo(result) ==
    LET statusRaw == StatusRaw(result)
        typeStr == IF IsStatic(result) THEN <<"S", "t", "a", "t", "i", "c">> ELSE <<"E", "p", "h", "e", "m", "e", "r", "a", "l">>
        statusStr == IF statusRaw = Some(IN_USE) THEN <<"I", "n", " ", "U", "s", "e">>
                     ELSE IF statusRaw = Some(RESERVED) THEN <<"R", "e", "s", "e", "r", "v", "e", "d">>
                     ELSE StatusOr(result, <<>>)
        text == IF Truthy(statusRaw)
                THEN statusStr \o <<" ", "(">> \o typeStr \o <<")">>
                ELSE typeStr
        color == IF statusRaw = Some(RESERVED) \/ IsStatic(result) THEN "Green"
                 ELSE IF statusRaw = Some(IN_USE) THEN "Orange"
                 ELSE "SecondaryText"
    IN  StatusInfo(text, color)

\* Mutant: an instance that is neither running nor terminated keeps the
\* default colour.
InstanceInfoOtherNeutral(result) ==
    LET statusRaw == StatusRaw(result)
    IN  IF statusRaw = Some(RUNNING) THEN StatusInfo(<<"R", "u", "n", "n", "i", "n", "g">>, "Green")
        ELSE IF statusRaw = Some(TERMINATED)
        THEN StatusInfo(<<"S", "t", "o", "p", "p", "e", "d">>, "SecondaryText")
        ELSE IF Truthy(statusRaw) THEN StatusInfo(statusRaw[1], "SecondaryText")
        ELSE StatusInfo(StatusOr(result, Dash), "SecondaryText")

\* resourceType === "instances"
InstanceInfo(result) ==
    LET statusRaw == StatusRaw(result)
    IN  IF statusRaw = Some(RUNNING) THEN StatusInfo(<<"R", "u", "n", "n", "i", "n", "g">>, "Green")
        ELSE IF statusRaw = Some(TERMINATED)
        THEN StatusInfo(<<"S", "t", "o", "p", "p", "e", "d">>, "SecondaryText")
        ELSE IF Truthy(statusRaw) THEN StatusInfo(statusRaw[1], "Orange")
        ELSE StatusInfo(StatusOr(result, Dash), "SecondaryText")

\* Mutant: the status of another resource is shown in upper case.
OtherInfoUpperCase(result) ==
    IF Truthy(result.status)
    THEN LET statusRaw == ToUpperCase(result.status[1])
         IN  StatusInfo(statusRaw,
                        IF statusRaw = ACTIVE \/ statusRaw = READY
                        THEN "Green"
                        ELSE "SecondaryText")
    ELSE StatusInfo(StatusOr(result, Dash), "SecondaryText")

\* Any other resourceType: else if (result.status) { ... }
OtherInfo(result) ==
    IF Truthy(result.status)
    THEN LET statusRaw == ToUpperCase(result.status[1])
         IN  StatusInfo(StatusOr(result, Dash),
                        IF statusRaw = ACTIVE \/ statusRaw = READY
                        THEN "Green"
                        ELSE "SecondaryText")
    ELSE StatusInfo(StatusOr(result, Dash), "SecondaryText")

getStatusInfo(result) ==
    IF result.resourceType = "addresses" THEN AddressInfo(result)
    ELSE IF result.resourceType = "instances" THEN InstanceInfo(result)
    ELSE OtherInfo(result)

\* The resource types of the results shown, one of them unknown to the code.
ResourceTypes == {"addresses", "instances", "forwarding-rules", "routers"}

\* The status strings of the results shown.
StatusTexts ==
    {RESERVED, IN_USE, RUNNING, TERMINATED, ACTIVE, READY,
     <<"r", "e", "s", "e", "r", "v", "e", "d">>, <<"I", "n", "_", "U", "s", "e">>, <<"r", "u", "n", "n", "i", "n", "g">>, <<"R", "e", "a", "d", "y">>,
     <<"S", "T", "A", "G", "I", "N", "G">>, <<"R", "E", "S", "E", "R", "V", "I", "N", "G">>, <<"D", "O", "W", "N">>, <<>>}

Rows ==
    [resourceType : ResourceTypes,
     status : {Missing} \cup {Some(t) : t \in StatusTexts},
     isStatic : {Missing, Some(TRUE), Some(FALSE)}]

InitRow ==
    /\ row \in Rows
    /\ statusInfo = NoInfo
    /\ history = <<>>
    /\ stored = JSONStringify(history)
    /\ history0 = history
    /\ clock = 3
    /\ typed = <<>>
    /\ searchMode = "quick"
    /\ customProjects = <<>>
    /\ gcloudStatus = "success"
    /\ rootToast = ""
    /\ accessible = <<>>
    /\ scans = <<>>
    /\ lastOp = NoOp
    /\ isHistoryLoading = FALSE
    /\ storedHistory = <<>>
    /\ searchText = <<>>
    /\ crashed = FALSE

\* const statusInfo = getStatusInfo(), in the render of the list item.
RenderRow ==
    /\ statusInfo = NoInfo
    /\ statusInfo' = getStatusInfo(row)
    /\ UNCHANGED <<history, stored, clock, typed, searchMode, customProjects,
                   gcloudStatus, rootToast, accessible, scans, history0,
                   lastOp, commandVars, row>>

NextRow == RenderRow

SpecRow == InitRow /\ [][NextRow]_vars

(***************************************************************************)
(* Properties                                                              *)
(***************************************************************************)
Scans == {scans[v] : v \in DOMAIN scans}

\* The loop of the scan has ended (the scope set was not empty).
AfterLoop(s) == s.listed /\ Len(s.projects) > 0 /\ s.pc \in {"toast", "done"}

\* The scan completed without being abandoned.
Finished(s) == AfterLoop(s) /\ s.isMounted

\* The ids of the first n projects of the scan, in the order of the lister.
FirstIds(s, n) == [k \in 1..n |-> s.projects[k].id]

IndexOfProject(s, pid) == CHOOSE k \in DOMAIN s.projects : s.projects[k].id = pid

\* The index of the last project of the batch that holds index k.
BatchEnd(s, k) ==
    Min((((k - 1) \div CONCURRENCY) + 1) * CONCURRENCY, Len(s.projects))

HasIp(h, ip) == \E k \in DOMAIN h : h[k].ip = ip

RECURSIVE OthersUpTo(_, _, _)
\* The entries among the first n of h for other addresses than ip, in order.
OthersUpTo(h, ip, n) ==
    IF n = 0
    THEN <<>>
    ELSE LET rest == OthersUpTo(h, ip, n - 1)
         IN  IF h[n].ip = ip THEN rest ELSE Append(rest, h[n])

\* The entries of h for other addresses than ip, in the order of h.
Others(h, ip) == OthersUpTo(h, ip, Len(h))

\* C1: in quick mode the probes go out in whole batches, in lister order;
\* no project after the batch of any match a probe returned is probed; every
\* probe that went out has settled when the loop ends; and without a match
\* an unabandoned scan probes everything.
C1Theorem ==
    \A s \in Scans :
        s.mode = "quick" =>
            /\ s.probed = FirstIds(s, Len(s.probed))
            /\ \/ Len(s.probed) = Len(s.projects)
               \/ Len(s.probed) % CONCURRENCY = 0
            /\ \A m \in s.found :
                  Len(s.probed) = BatchEnd(s, IndexOfProject(s, m.projectId))
            /\ AfterLoop(s) => s.processedCount = Len(s.probed)
            /\ Finished(s) /\ s.found = {} => Len(s.probed) = Len(s.projects)

\* A finished quick scan of more than one batch that stopped after the first
\* batch, in which the last project matched.
C1Witness ==
    \E s \in Scans :
        /\ s.mode = "quick" /\ Finished(s)
        /\ Len(s.projects) > CONCURRENCY
        /\ Len(s.probed) = CONCURRENCY
        /\ s.processedCount = CONCURRENCY
        /\ \E m \in s.found : m.projectId = s.projects[CONCURRENCY].id

\* C2: in full and custom mode a scan that completes without being abandoned
\* has probed every project of its scope set exactly once, in order, and its
\* progress ends with current = total = the number of projects.
C2Theorem ==
    \A s \in Scans :
        s.mode \in {"full", "custom"} /\ Finished(s) =>
            /\ s.probed = FirstIds(s, Len(s.projects))
            /\ s.processedCount = Len(s.projects)
            /\ s.scanProgress.current = Len(s.projects)
            /\ s.scanProgress.total = Len(s.projects)

\* A finished full scan of two batches with a match in the first batch and a
\* probe that threw.
C2Witness ==
    \E s \in Scans :
        /\ s.mode = "full" /\ Finished(s)
        /\ Len(s.projects) > CONCURRENCY
        /\ s.threw # {}
        /\ \E m \in s.found : m.projectId = s.projects[1].id

\* C3 (as claimed): when a scan completes, the final progress has current
\* equal to the number of projects actually probed.
C3Claim ==
    \A s \in Scans : Finished(s) => s.scanProgress.current = Len(s.probed)

\* C4: a probe that throws is counted like any settled probe and leaves an
\* empty result for its project only; it never ends the scan in "Search
\* Failed"; after the loop the results are exactly the matches the other
\* probes returned.
C4Theorem ==
    \A s \in Scans :
        /\ s.pc = "batch" =>
              s.processedCount = s.i + Cardinality(DOMAIN s.batchResults)
        /\ \A k \in DOMAIN s.batchResults :
              s.projects[k].id \in s.threw => s.batchResults[k] = <<>>
        /\ s.threw # {} => s.toast # "Search Failed"
        /\ AfterLoop(s) =>
              /\ s.processedCount = Len(s.probed)
              /\ Range(s.searchResults) = s.found
              /\ \A m \in Range(s.searchResults) : m.projectId \notin s.threw
        /\ Finished(s) =>
              /\ Range(s.results) = s.found
              /\ s.scanProgress.current >= s.processedCount

\* A finished scan in which one probe threw and a sibling of the same batch
\* matched.
C4Witness ==
    \E s \in Scans :
        /\ Finished(s)
        /\ Len(s.projects) >= 2
        /\ s.threw = {s.projects[2].id}
        /\ \E m \in Range(s.results) : m.projectId = s.projects[1].id
        /\ s.toast = ""

\* C5: the history never holds two entries of one ip, never more than 50
\* entries, and its entries are in the order of their last upsert, newest
\* first.
C5Theorem ==
    /\ \A j, k \in DOMAIN history : history[j].ip = history[k].ip => j = k
    /\ Len(history) <= HistoryCap
    /\ \A k \in 1..(Len(history) - 1) :
          history[k].timestamp > history[k + 1].timestamp

\* A second or later call upserts an ip that a full history already holds.
C5Witness ==
    /\ lastOp.kind = "add"
    /\ lastOp.n >= 2
    /\ Len(lastOp.before) = HistoryCap
    /\ HasIp(lastOp.before, lastOp.ip)
    /\ Len(history) = HistoryCap

\* C6: after addToHistory(ip, results, mode) the history holds one entry of
\* ip, at the front, with these results and this mode, followed by the other
\* entries in their previous order, as many as fit in 50.
C6Theorem ==
    lastOp.kind = "add" =>
        LET others == Others(lastOp.before, lastOp.ip)
        IN  /\ Len(history) >= 1
            /\ history[1].ip = lastOp.ip
            /\ history[1].results = lastOp.results
            /\ history[1].mode = lastOp.mode
            /\ Cardinality({k \in DOMAIN history : history[k].ip = lastOp.ip}) = 1
            /\ Tail(history) = SubSeq(others, 1, Min(Len(others), HistoryCap - 1))

\* A new ip is upserted into a history of 50: the oldest entry is gone.
C6Witness ==
    /\ lastOp.kind = "add"
    /\ Len(lastOp.before) = HistoryCap
    /\ ~HasIp(lastOp.before, lastOp.ip)
    /\ Len(history) = HistoryCap
    /\ ~HasIp(history, lastOp.before[HistoryCap].ip)

\* C7: a scan of a non-empty scope set that completes without being
\* abandoned has made one history call: with matches addToHistory, which
\* puts the entry of its ip, results and mode at the front; without matches
\* removeFromHistory, after which the history has no entry of its ip.
C7Theorem ==
    \A s \in Scans :
        Finished(s) =>
            IF s.results # <<>>
            THEN /\ s.histOps = <<"add">>
                 /\ Len(history) >= 1
                 /\ history[1].ip = s.ip
                 /\ history[1].results = s.results
                 /\ history[1].mode = s.mode
                 /\ Tail(history) = Others(history0, s.ip)
                 /\ stored = JSONStringify(history)
            ELSE /\ s.histOps = <<"remove">>
                 /\ history = Others(history0, s.ip)
                 /\ stored = JSONStringify(history)

\* A finished quick scan of one batch without a match, whose ip the history
\* held before.
C7Witness ==
    \E s \in Scans :
        /\ Finished(s) /\ s.mode = "quick"
        /\ s.results = <<>>
        /\ Len(s.probed) = SmallScopes
        /\ HasIp(history0, s.ip)
        /\ ~HasIp(history, s.ip)

\* No project of the account is in the custom list of the scan.
NoFilterHit(s) ==
    \A k \in DOMAIN accessible : accessible[k].id \notin Range(s.customProjectIds)

\* C8: a custom scan whose list names no accessible project probes nothing
\* and never touches the history; once the projects are listed it shows
\* "No Accessible Projects Found" and ends without results.
C8Theorem ==
    \A s \in Scans :
        s.mode = "custom" /\ NoFilterHit(s) =>
            /\ s.probed = <<>>
            /\ s.histOps = <<>>
            /\ history = history0
            /\ stored = JSONStringify(history0)
            /\ s.listed =>
                  /\ s.toast = "No Accessible Projects Found"
                  /\ s.pc \in {"toast", "done"}
                  /\ s.results = <<>>

\* The account has projects, none is in the list, the projects were listed
\* and the history holds the ip.
C8Witness ==
    \E s \in Scans :
        /\ s.mode = "custom" /\ NoFilterHit(s)
        /\ accessible # <<>>
        /\ s.customProjectIds # <<>>
        /\ s.listed /\ s.pc = "done"
        /\ HasIp(history0, s.ip)

\* The scan ended in a failure other than no match after scanning.
FailureToasts ==
    {"Gcloud CLI Not Found", "Search Failed", "No Accessible Projects Found"}

\* C9 (as claimed): every failure other than no match after scanning leaves
\* the history as it was.
C9Claim ==
    /\ rootToast # "" => history = history0
    /\ \A s \in Scans : s.toast \in FailureToasts => history = history0

\* C9 (amended): an invalid ip, a missing gcloud, a failed enumeration and an
\* empty scope set in custom mode leave the history and its stored copy as
\* they were.
C9Theorem ==
    /\ rootToast # "" =>
          /\ scans = <<>>
          /\ history = history0
          /\ stored = JSONStringify(history0)
    /\ \A s \in Scans :
          (\/ s.toast \in {"Gcloud CLI Not Found", "Search Failed"}
           \/ s.toast = "No Accessible Projects Found" /\ s.mode = "custom"
           \/ s.pc = "done" /\ ~s.listed)
          => (/\ s.histOps = <<>>
              /\ history = history0
              /\ stored = JSONStringify(history0))

\* The enumeration failed for an ip the history holds.
C9Witness ==
    \E s \in Scans :
        /\ s.toast = "Search Failed"
        /\ s.pc = "done"
        /\ HasIp(history0, s.ip)

\* C10: in quick and full mode, when the account has no project, the scan
\* probes nothing, shows "No Accessible Projects Found" (the toast of a scan
\* without match, "No Resources Found", is shown only after probing), and
\* has removed the entry of its ip from the history.
C10Theorem ==
    \A s \in Scans :
        /\ s.mode # "custom" /\ s.listed /\ accessible = <<>> =>
              /\ s.probed = <<>>
              /\ s.toast = "No Accessible Projects Found"
              /\ s.pc \in {"toast", "done"}
              /\ s.results = <<>>
              /\ s.histOps = <<"remove">>
              /\ history = Others(history0, s.ip)
              /\ stored = JSONStringify(history)
        /\ s.toast = "No Resources Found" => Len(s.probed) > 0
        /\ s.toast = "No Accessible Projects Found" => s.probed = <<>>

\* A quick scan found no project and the entry of its ip is gone.
C10Witness ==
    \E s \in Scans :
        /\ s.mode = "quick" /\ s.listed /\ accessible = <<>>
        /\ s.pc = "done"
        /\ HasIp(history0, s.ip)
        /\ ~HasIp(history, s.ip)
        /\ Len(history) = Len(history0) - 1

\* The texts a user can submit that are, trimmed, an IPv4 or IPv6 address.
AddressTexts ==
    {t \in SearchTexts : Test(ipv4Regex, Trim(t)) \/ Test(ipv6Regex, Trim(t))}

\* C11: an ip that fails validation starts no scan (so no project listing
\* and no probe), and leaves the history and its stored copy as they were;
\* every scan that exists is for a text whose trimmed form is an IPv4 or
\* IPv6 address.
C11Theorem ==
    /\ rootToast = "Invalid IP Address" =>
          /\ scans = <<>>
          /\ typed = <<>>
          /\ history = history0
          /\ stored = JSONStringify(history0)
    /\ \A s \in Scans : s.ip \in AddressTexts

\* A partial address was submitted and rejected while the history held
\* entries.
C11Witness ==
    /\ rootToast = "Invalid IP Address"
    /\ typed = <<>>
    /\ Len(history0) = 2
    /\ ~isValidIP(IpPartial)

\* The scan ended in the catch block of the effect.
Aborted(s) ==
    \/ s.toast = "Search Failed"
    \/ s.pc = "done" /\ ~s.listed /\ s.toast = ""

\* C12: a scan whose project enumeration fails (the exception that reaches
\* the catch block of the effect) dispatches no probe, publishes no result,
\* makes no history call, leaves the history and its stored copy as they
\* were, and, when the view is still there at the end, has cleared the
\* loading state.
C12Theorem ==
    \A s \in Scans :
        Aborted(s) =>
            /\ s.pc \in {"toast", "done"}
            /\ s.probed = <<>>
            /\ s.processedCount = 0
            /\ s.results = <<>>
            /\ s.histOps = <<>>
            /\ history = history0
            /\ stored = JSONStringify(history0)
            /\ s.pc = "done" /\ s.isMounted => ~s.isLoading

\* The enumeration failed in a full scan over an account with more than one
\* batch of projects; the view is there and no longer loading.
C12Witness ==
    \E s \in Scans :
        /\ s.toast = "Search Failed"
        /\ s.mode = "full"
        /\ s.pc = "done"
        /\ s.isMounted
        /\ ~s.isLoading
        /\ Len(accessible) > CONCURRENCY

\* The scans whose view was popped.
Abandoned == {s \in Scans : s.left # <<>>}

\* C13: once the view of a scan is popped, no probe is dispatched any more
\* (the list of dispatched probes stays as it was), while the probes already
\* in flight still settle: the scan ends only after all of them have.
C13Theorem ==
    \A s \in Abandoned :
        /\ ~s.isMounted
        /\ s.probed = s.left[1].probed
        /\ s.processedCount >= s.left[1].processedCount
        /\ s.processedCount <= Len(s.probed)
        /\ s.pc = "done" /\ s.listed => s.processedCount = Len(s.probed)

\* A full scan of more than one batch was abandoned while probes of its first
\* batch were in flight; they all settled, and the scan ended without a
\* second batch.
C13Witness ==
    \E s \in Abandoned :
        /\ s.mode = "full"
        /\ s.left[1].pc = "batch"
        /\ s.left[1].processedCount < CONCURRENCY
        /\ Len(s.projects) > CONCURRENCY
        /\ s.pc = "done"
        /\ s.processedCount = CONCURRENCY
        /\ Len(s.probed) = CONCURRENCY

\* C14 (as claimed): after its view is popped, at whatever point, a scan
\* makes no history call, so the history is as it was unless the scan had
\* changed it before, and it sets no progress.
C14Claim ==
    \A s \in Abandoned :
        /\ s.histOps = s.left[1].histOps
        /\ s.left[1].histOps = <<>> =>
              /\ history = history0
              /\ stored = JSONStringify(history0)
        /\ s.scanProgress = s.left[1].scanProgress

\* The value is a list of history items: objects with a string ip, a list
\* of result objects, a timestamp and a project count.
IsHistory(value) ==
    /\ value.t = "arr"
    /\ \A k \in DOMAIN value.items :
          LET h == value.items[k]
          IN  /\ h.t = "obj"
              /\ \A key \in {"ip", "results", "timestamp", "projectCount"} :
                    HasMember(h, key)
              /\ Member(h, "ip").t = "str"
              /\ Member(h, "timestamp").t = "num"
              /\ Member(h, "projectCount").t = "num"
              /\ Member(h, "results").t = "arr"
              /\ \A j \in DOMAIN Member(h, "results").items :
                    Member(h, "results").items[j].t = "obj"

\* The stored text is not the text of a list of history items.
Corrupt(text) ==
    text # <<>> /\ (~JSONParse(text).ok \/ ~IsHistory(JSONParse(text).value))

\* C15 (as claimed): after the load of a stored text that does not parse, or
\* that parses to something else than a list of history items, the history
\* is the empty list, and no render of the command throws.
C15Claim ==
    /\ ~crashed
    /\ ~isHistoryLoading /\ Corrupt(stored) => history = JArr(<<>>)

\* C16: after removeFromHistory(ip) the history is the previous one without
\* the entry whose ip equals ip, the other entries unchanged and in their
\* previous order; when no entry has this ip the history is unchanged; the
\* stored copy is the new history.
C16Theorem ==
    lastOp.kind = "remove" =>
        /\ ~HasIp(history, lastOp.ip)
        /\ history = Others(lastOp.before, lastOp.ip)
        /\ Len(history) =
              Len(lastOp.before) - (IF HasIp(lastOp.before, lastOp.ip) THEN 1 ELSE 0)
        /\ ~HasIp(lastOp.before, lastOp.ip) => history = lastOp.before
        /\ stored = JSONStringify(history)

\* "10.0.0.1" is removed from a full history that also holds "10.0.0.10",
\* which stays.
C16Witness ==
    /\ lastOp.kind = "remove"
    /\ lastOp.ip = Ip4(1)
    /\ Len(lastOp.before) = HistoryCap
    /\ HasIp(lastOp.before, Ip4(1))
    /\ HasIp(history, Ip4(10))
    /\ Len(history) = HistoryCap - 1

\* The list item has been rendered.
Rendered == statusInfo # NoInfo

\* The reservation state of the row, read without regard to letter case.
StateIs(name) == row.status # Missing /\ ToUpperCase(row.status[1]) = name

\* The colour the code uses for a severity.
Positive == "Green"
Warning == "Orange"
Neutral == "SecondaryText"

\* C17 (as claimed): the colour of an address follows its reservation state
\* alone, static or not: RESERVED positive, IN_USE warning, any other state
\* neutral.
C17Claim ==
    Rendered /\ row.resourceType = "addresses" =>
        statusInfo.color =
            (IF StateIs(RESERVED) THEN Positive
             ELSE IF StateIs(IN_USE) THEN Warning
             ELSE Neutral)

\* C17 (amended): an address that is not static is positive when RESERVED,
\* warning when IN_USE and neutral in any other state; a static address is
\* positive in every state.
C17Theorem ==
    Rendered /\ row.resourceType = "addresses" =>
        /\ row.isStatic = Some(TRUE) => statusInfo.color = Positive
        /\ row.isStatic # Some(TRUE) =>
              /\ StateIs(RESERVED) => statusInfo.color = Positive
              /\ StateIs(IN_USE) => statusInfo.color = Warning
              /\ ~StateIs(RESERVED) /\ ~StateIs(IN_USE) =>
                    statusInfo.color = Neutral

\* A static address in use has been rendered.
C17Witness ==
    /\ Rendered
    /\ row.resourceType = "addresses"
    /\ row.isStatic = Some(TRUE)
    /\ row.status = Some(IN_USE)
    /\ statusInfo.color = Positive

\* C18: an instance is positive when RUNNING, neutral when TERMINATED, and
\* warning with any other status that is present (a non-empty string).
C18Theorem ==
    Rendered /\ row.resourceType = "instances" =>
        /\ StateIs(RUNNING) => statusInfo.color = Positive
        /\ StateIs(TERMINATED) => statusInfo.color = Neutral
        /\ Truthy(row.status) /\ ~StateIs(RUNNING) /\ ~StateIs(TERMINATED) =>
              statusInfo.color = Warning

\* An instance in a transitional state has been rendered.
C18Witness ==
    /\ Rendered
    /\ row.resourceType = "instances"
    /\ row.status = Some(<<"S", "T", "A", "G", "I", "N", "G">>)
    /\ statusInfo.color = Warning

\* C19 (as claimed): every row gets a text and a colour, and a row of a type
\* the code does not know is neutral, its status string shown as it is.
C19Claim ==
    Rendered =>
        /\ statusInfo.color \in {Positive, Warning, Neutral}
        /\ row.resourceType \notin {"addresses", "instances"} =>
              /\ statusInfo.color = Neutral
              /\ Truthy(row.status) => statusInfo.text = row.status[1]

\* C19 (amended): every row gets a text and a colour; a row of a type the
\* code does not know shows its status string as it is ("-" when the status
\* is missing or empty), and is positive when the status is ACTIVE or READY
\* in any letter case, neutral otherwise.
C19Theorem ==
    Rendered =>
        /\ statusInfo.color \in {Positive, Warning, Neutral}
        /\ statusInfo.text # <<>>
        /\ row.resourceType \notin {"addresses", "instances"} =>
              /\ Truthy(row.status) => statusInfo.text = row.status[1]
              /\ ~Truthy(row.status) => statusInfo.text = Dash
              /\ statusInfo.color =
                    (IF StateIs(ACTIVE) \/ StateIs(READY)
                     THEN Positive
                     ELSE Neutral)

\* A row of an unknown type with the status "Ready" has been rendered.
C19Witness ==
    /\ Rendered
    /\ row.resourceType = "routers"
    /\ row.status = Some(<<"R", "e", "a", "d", "y">>)
    /\ statusInfo.text = <<"R", "e", "a", "d", "y">>
    /\ statusInfo.color = Positive

\* One step of a scan, from s to t: the progress shown does not go down, at
\* most one probe settles, and a probe that settles while the view is there
\* moves the progress shown up by exactly one.
ProgressStep(s, t) ==
    /\ t.scanProgress.current >= s.scanProgress.current
    /\ t.scanProgress.current <= t.scanProgress.total
    /\ t.processedCount \in {s.processedCount, s.processedCount + 1}
    /\ t.processedCount = s.processedCount + 1 /\ s.isMounted =>
          t.scanProgress.current = s.scanProgress.current + 1

\* C20: within a scan the progress shown never decreases; every probe that
\* settles, with a result or with an exception, adds exactly one to it, so in
\* the middle of a batch it is the number of probes settled so far.
C20Theorem ==
    /\ [](\A s \in Scans :
              s.pc = "batch" /\ s.isMounted =>
                  /\ s.scanProgress.current = s.processedCount
                  /\ s.processedCount = s.i + Cardinality(DOMAIN s.batchResults))
    /\ [][\A v \in DOMAIN scans : ProgressStep(scans[v], scans'[v])]_vars

\* In the middle of the second batch of a full scan, after a probe threw, the
\* progress shown is the number of probes settled.
C20Witness ==
    \E s \in Scans :
        /\ s.pc = "batch" /\ s.isMounted
        /\ s.threw # {}
        /\ s.i = CONCURRENCY
        /\ Pending(s) # {}
        /\ s.scanProgress.current = CONCURRENCY
        /\ s.scanProgress.total = CONCURRENCY + 1

RECURSIVE ReturnedUpTo(_, _)
\* What the probes of the first n projects of the scan returned, project by
\* project in the order of the lister (nothing for a probe that threw).
ReturnedUpTo(s, n) ==
    IF n = 0
    THEN <<>>
    ELSE ReturnedUpTo(s, n - 1) \o s.returned[n]

\* The first project, in the order of the lister, whose probe returned a
\* match; 0 when none did.
FirstHolder(s) ==
    IF \A k \in DOMAIN s.returned : s.returned[k] = <<>>
    THEN 0
    ELSE CHOOSE k \in DOMAIN s.returned :
             /\ s.returned[k] # <<>>
             /\ \A j \in DOMAIN s.returned : s.returned[j] # <<>> => k <= j

\* C21: the results of a quick scan that completed are the matches of all
\* the projects of one batch, in the order of the lister: the first batch in
\* which a project matched; every match of that batch is kept, no project of
\* a later batch was probed, and the batches before it held no match.
C21Theorem ==
    \A s \in Scans :
        s.mode = "quick" /\ Finished(s) =>
            /\ s.results = ReturnedUpTo(s, Len(s.probed))
            /\ Range(s.results) = s.found
            /\ FirstHolder(s) = 0 => s.results = <<>> /\ Len(s.probed) = Len(s.projects)
            /\ FirstHolder(s) # 0 =>
                  /\ Len(s.probed) = BatchEnd(s, FirstHolder(s))
                  /\ \A m \in Range(s.results) :
                        BatchEnd(s, IndexOfProject(s, m.projectId)) = Len(s.probed)

\* A quick scan completed with the matches of two projects of its first
\* batch, the first project with two matches, and did not probe the second
\* batch.
C21Witness ==
    \E s \in Scans :
        /\ s.mode = "quick" /\ Finished(s)
        /\ Len(s.projects) > CONCURRENCY
        /\ Len(s.probed) = CONCURRENCY
        /\ Len(s.results) = 3
        /\ s.results[1].projectId = s.projects[1].id
        /\ s.results[2].projectId = s.projects[1].id
        /\ s.results[3].projectId = s.projects[2].id

\* The probes of the scan that were started and have not settled, as the
\* indexes of their projects.
InFlight(s) == (1..Len(s.probed)) \ DOMAIN s.returned

\* The number of the batch of the k-th project.
BatchNo(k) == (k - 1) \div CONCURRENCY

\* C22: at most CONCURRENCY probes of a scan are in flight at any time, and
\* while a probe of a batch is in flight every probe of the batches before
\* it has settled.
C22Theorem ==
    \A s \in Scans :
        /\ Cardinality(InFlight(s)) <= CONCURRENCY
        /\ \A k \in InFlight(s) :
              \A j \in 1..Len(s.probed) :
                  BatchNo(j) < BatchNo(k) => j \in DOMAIN s.returned

\* A probe of the second batch is in flight after the ten probes of the
\* first batch settled.
C22Witness ==
    \E s \in Scans :
        /\ CONCURRENCY + 1 \in InFlight(s)
        /\ DOMAIN s.returned = 1..CONCURRENCY

\* The ids of the projects the lister returns.
AccessibleIds == {accessible[k].id : k \in DOMAIN accessible}

\* The place of the project in the list the lister returns.
ListerIndex(pid) == CHOOSE k \in DOMAIN accessible : accessible[k].id = pid

\* C23: a custom scan probes only projects that the lister returned and that
\* the custom list names, in the order of the lister, and a custom scan that
\* completed probed every such project.
C23Theorem ==
    \A s \in Scans :
        s.mode = "custom" =>
            /\ Range(s.probed) \subseteq AccessibleIds \cap Range(s.customProjectIds)
            /\ \A j, k \in DOMAIN s.probed :
                  j < k => ListerIndex(s.probed[j]) < ListerIndex(s.probed[k])
            /\ Finished(s) =>
                  Range(s.probed) = AccessibleIds \cap Range(s.customProjectIds)

\* A custom scan for the list "b, a" completed over an account with more
\* projects than these two: it probed a and then b.
C23Witness ==
    \E s \in Scans :
        /\ s.mode = "custom" /\ Finished(s)
        /\ s.customProjectIds = << <<"b">>, <<"a">> >>
        /\ s.probed = << <<"a">>, <<"b">> >>
        /\ Len(accessible) > 2

\* C28: in every mode the results of a scan that completed are what the
\* probes returned, grouped by project in the order of the lister, whatever
\* the order in which the probes of a batch settled.
C28Theorem ==
    \A s \in Scans :
        Finished(s) =>
            /\ s.results = ReturnedUpTo(s, Len(s.probed))
            /\ \A j, k \in DOMAIN s.results :
                  j < k => IndexOfProject(s, s.results[j].projectId)
                               <= IndexOfProject(s, s.results[k].projectId)

\* A scan completed with the matches of its first two projects after a probe
\* of a batch settled before the probe of an earlier project of the batch.
C28Witness ==
    \E s \in Scans :
        /\ Finished(s)
        /\ s.overtaken
        /\ Len(s.results) > 1
        /\ s.results[1].projectId = s.projects[1].id
        /\ s.results[Len(s.results)].projectId = s.projects[2].id

\* C29: a scan mutates the history at most once, and when it saves its
\* matches every probe it started has settled.
C29Theorem ==
    \A s \in Scans :
        /\ Len(s.histOps) <= 1
        /\ "add" \in Range(s.histOps) =>
              /\ InFlight(s) = {}
              /\ Pending(s) = {}
              /\ s.processedCount = Len(s.probed)

\* A scan of two batches, one of whose probes threw, saved its matches.
C29Witness ==
    \E s \in Scans :
        /\ s.histOps = <<"add">>
        /\ Len(s.probed) > CONCURRENCY
        /\ s.threw # {}

\* The scan of the search has ended with the loading state cleared.
Terminated ==
    /\ scans # <<>>
    /\ scans[1].pc = "done"
    /\ ~scans[1].isLoading

\* The view of the scan was popped.
Left == scans # <<>> /\ ~scans[1].isMounted

\* C24: when every awaited call settles, a scan that was started ends with
\* the loading state cleared, unless its view is popped.
C24Theorem == (scans # <<>>) ~> (Terminated \/ Left)

\* A scan of two batches ended with the loading state cleared and its view
\* still mounted.
C24Witness ==
    /\ Terminated
    /\ scans[1].isMounted
    /\ Len(scans[1].probed) > CONCURRENCY

\* C25: of two scans for different ips, each one that saved its matches has
\* its entry in the history, with the results it found, and each one that
\* removed its ip has none, whatever the other scan did meanwhile; the
\* stored copy is the history.
C25Theorem ==
    /\ stored = JSONStringify(history)
    /\ \A v, w \in DOMAIN scans :
          v # w /\ scans[v].ip # scans[w].ip =>
              /\ scans[v].histOps = <<"add">> =>
                    \E k \in DOMAIN history :
                        /\ history[k].ip = scans[v].ip
                        /\ history[k].results = scans[v].results
              /\ scans[v].histOps = <<"remove">> => ~HasIp(history, scans[v].ip)

\* Two scans for different ips ran side by side and both saved their
\* matches, the second one submitted first.
C25Witness ==
    /\ Len(scans) = 2
    /\ scans[1].ip # scans[2].ip
    /\ scans[1].histOps = <<"add">>
    /\ scans[2].histOps = <<"add">>
    /\ scans[1].overtaken
    /\ history[1].ip = scans[1].ip
    /\ history[2].ip = scans[2].ip

\* The submitted texts that isValidIP accepts as they are.
ValidAsSubmitted == {t \in UNION {Range(p) : p \in TextPairs} : isValidIP(t)}

\* C30: the ip of every scan, which is the ip handed to the probes and the
\* key of its upsert or remove, is a text that isValidIP accepts.
C30Claim == \A s \in Scans : s.ip \in ValidAsSubmitted

\* What the load effect would put in the history from the stored copy:
\* JSON.parse of the text written, or no value on a SyntaxError.
Rehydrated ==
    LET r == JSONParse(JSONText(stored))
    IN  IF r.ok THEN <<HistoryOf(r.value)>> ELSE <<>>

\* C27: after every addToHistory and removeFromHistory the stored copy is
\* the serialization of the new history, and parsing its text gives the
\* history back, item by item.
C27Theorem ==
    /\ stored = JSONStringify(history)
    /\ Rehydrated = <<history>>

\* Three calls, the last a remove, left a full history with an item of two
\* matches in full mode.
C27Witness ==
    /\ lastOp.kind = "remove"
    /\ lastOp.n = MaxCacheOps
    /\ HasIp(lastOp.before, lastOp.ip)
    /\ Len(history) = HistoryCap - 1
    /\ \E k \in DOMAIN history :
          history[k].mode = "full" /\ Len(history[k].results) = 2

\* C26: once the load has finished, the last addToHistory or
\* removeFromHistory called before it finished shows in the history: the ip
\* of an upsert has an entry, the ip of a remove has none.
C26Claim ==
    ~isHistoryLoading =>
        /\ lastOp.kind = "add" => HasIp(history, lastOp.ip)
        /\ lastOp.kind = "remove" => ~HasIp(history, lastOp.ip)

====
